---------------------------- MODULE Spec2Model ----------------------------
(***************************************************************************)
(* Model of amplifier_module_resolution:                                   *)
(*   sources.py    FileSource, GitSource (URI grammar, cache, fetch),      *)
(*                 PackageSource                                           *)
(*   resolvers.py  StandardModuleSourceResolver (six-layer resolution,     *)
(*                 descriptor parser, workspace check, package fallback)   *)
(*                                                                         *)
(* Python str values are sequences of one-character strings, so that       *)
(* startswith / split / rsplit are computed on the characters.  Optional   *)
(* values (str | None) are <<>> for None and <<s>> for the string s.       *)
(***************************************************************************)
EXTENDS Integers, Sequences, FiniteSets, TLC

VARIABLES
    \* ---- GitSource.from_uri / descriptor rendering (sources.py) ----
    uri,          \* the string handed to GitSource.from_uri
    parsed,       \* from_uri(uri)
    rendered,     \* the git_url _download_via_uv builds from `parsed`
    reparsed,     \* from_uri(rendered)
    upc,          \* position in the parse / render / parse sequence
    \* ---- StandardModuleSourceResolver (resolvers.py) ----
    environ,      \* os.environ: env key -> Optional str
    workspace_dir,      \* self.workspace_dir (Optional)
    wsfs,         \* state of <workspace_dir>/<module_id> on disk, per module id
    settings_provider,   \* Optional mapping module id -> descriptor
    collection_provider, \* Optional mapping module id -> path
    installed,    \* names importlib.metadata.distribution() finds
    call,         \* the arguments of the last resolve_with_layer call
    result,       \* what that call returned or raised
    \* ---- GitSource.resolve (sources.py) ----
    cachefs,      \* state of each cache path on disk
    gpc,          \* per caller: position inside resolve()
    gsrc,         \* per caller: the GitSource being resolved
    gfetches,     \* per caller: _download_via_uv invocations of the current call
    gfetch,       \* per caller: how the download of the current call ended
    gout,         \* per caller: what the current call returned or raised
    gseen,        \* per caller: the cache path as the call's checks found it
    ncalls,       \* resolve() calls started so far
    \* ---- FileSource (sources.py) ----
    fpath,        \* the path argument given to FileSource()
    fsource,      \* the FileSource constructed
    fdisk,        \* what lies on disk at the source's path
    fout          \* what FileSource.resolve() returned or raised

uvars == <<uri, parsed, rendered, reparsed, upc>>
rvars == <<environ, workspace_dir, wsfs, settings_provider, collection_provider,
           installed, call, result>>
gvars == <<cachefs, gpc, gsrc, gfetches, gfetch, gout, gseen, ncalls>>
fvars == <<fpath, fsource, fdisk, fout>>
vars == <<uvars, rvars, gvars, fvars>>

-----------------------------------------------------------------------------
(* Python values *)

NoneVal == <<>>
Some(s) == <<s>>
IsNone(o) == o = <<>>
\* truthiness of an Optional str: None and "" are falsy
TruthyOpt(o) == o # <<>> /\ o[1] # <<>>

\* str.startswith
StartsWith(s, p) == Len(s) >= Len(p) /\ SubSeq(s, 1, Len(p)) = p

\* positions at which `needle` occurs in s
Occurrences(s, needle) ==
    { i \in 1..(Len(s) - Len(needle) + 1) : SubSeq(s, i, i + Len(needle) - 1) = needle }

\* `needle in s`
Contains(s, needle) == Occurrences(s, needle) # {}

SetMin(S) == CHOOSE x \in S : \A y \in S : x <= y
SetMax(S) == CHOOSE x \in S : \A y \in S : x >= y

\* s.split(sep, 1) when sep occurs in s: cut at the first occurrence
SplitFirst(s, sep) ==
    LET i == SetMin(Occurrences(s, sep))
    IN  <<SubSeq(s, 1, i - 1), SubSeq(s, i + Len(sep), Len(s))>>

\* s.rsplit(sep, 1) when sep occurs in s: cut at the last occurrence
SplitLast(s, sep) ==
    LET i == SetMax(Occurrences(s, sep))
    IN  <<SubSeq(s, 1, i - 1), SubSeq(s, i + Len(sep), Len(s))>>

GitPlus == <<"g", "i", "t", "+">>
SubdirMarker == <<"#", "s", "u", "b", "d", "i", "r", "e", "c", "t", "o", "r", "y", "=">>
AtSign == <<"@">>
Slash == <<"/">>
MainRef == <<"m", "a", "i", "n">>

-----------------------------------------------------------------------------
(* sources.py: GitSource *)

GitSource(url, ref, subdirectory) ==
    [kind |-> "git", url |-> url, ref |-> ref, subdirectory |-> subdirectory]

ValueError(msg) == [kind |-> "error", type |-> "ValueError", msg |-> msg]

\* from_uri with the ref cut at the first '@' instead of the last
FromUriBody_FirstAt(rest) ==
    LET hasSub == Contains(rest, SubdirMarker)
        cut    == IF hasSub THEN SplitFirst(rest, SubdirMarker) ELSE <<rest, <<>>>>
        urlref == cut[1]
        sub    == IF hasSub THEN Some(cut[2]) ELSE NoneVal
        hasRef == Contains(urlref, AtSign)
        parts  == IF hasRef THEN SplitFirst(urlref, AtSign) ELSE <<urlref, MainRef>>
    IN  GitSource(parts[1], parts[2], sub)

\* the two splits of from_uri, on the text after "git+"
FromUriBody(rest) ==
    LET hasSub == Contains(rest, SubdirMarker)
        cut    == IF hasSub THEN SplitFirst(rest, SubdirMarker) ELSE <<rest, <<>>>>
        urlref == cut[1]
        sub    == IF hasSub THEN Some(cut[2]) ELSE NoneVal
        hasRef == Contains(urlref, AtSign)
        parts  == IF hasRef THEN SplitLast(urlref, AtSign) ELSE <<urlref, MainRef>>
    IN  GitSource(parts[1], parts[2], sub)

from_uri(u) ==
    IF ~StartsWith(u, GitPlus)
    THEN ValueError("Git URI must start with 'git+'")
    ELSE FromUriBody(SubSeq(u, Len(GitPlus) + 1, Len(u)))

\* git_url that leaves the ref out
GitUrl_NoRef(src) ==
    GitPlus \o src.url
        \o (IF TruthyOpt(src.subdirectory) THEN SubdirMarker \o src.subdirectory[1] ELSE <<>>)

\* git_url as built in _download_via_uv
GitUrl(src) ==
    GitPlus \o src.url \o AtSign \o src.ref
        \o (IF TruthyOpt(src.subdirectory) THEN SubdirMarker \o src.subdirectory[1] ELSE <<>>)


-----------------------------------------------------------------------------
(* sources.py: GitSource.resolve and its cache *)

\* self.cache_dir
CacheRoot == <<"~", "/", ".", "a", "m", "p", "l", "i", "f", "i", "e", "r", "/", "m", "o", "d", "u", "l", "e", "-", "c", "a", "c", "h", "e">>

\* cache_key: the model keeps the hashed text itself in place of the first 12
\* hex digits of its SHA-256
CacheKey(src) == src.url \o AtSign \o src.ref

\* cache_path
CachePath(src) == CacheRoot \o Slash \o CacheKey(src) \o Slash \o src.ref

\* final_path
FinalPath(src) ==
    IF TruthyOpt(src.subdirectory)
    THEN CachePath(src) \o Slash \o src.subdirectory[1]
    ELSE CachePath(src)

\* a cache path on disk: whether it exists, whether a .py file lies anywhere
\* beneath it, and which subdirectories it holds
NoDir == [exists |-> FALSE, py |-> FALSE, subs |-> {}]

\* a validity check whose glob pattern matches no file
IsValidCache_NoMatch(d) == FALSE

\* GitSource._is_valid_cache
IsValidCache(d) == d.exists /\ d.py

\* the cache check that takes any existing cache path for a hit
CacheHit_ExistsOnly(src) == cachefs[CachePath(src)].exists

\* the cache check of resolve()
CacheHit(src) ==
    cachefs[CachePath(src)].exists /\ IsValidCache(cachefs[CachePath(src)])

\* whether path FinalPath(src) is present in directory state d of its cache path
PresentIn(d, src) ==
    IF TruthyOpt(src.subdirectory) THEN src.subdirectory[1] \in d.subs ELSE d.exists

\* the check after the download, left out
FinalPathExists_Unchecked(src) == TRUE

\* final_path.exists()
FinalPathExists(src) == PresentIn(cachefs[CachePath(src)], src)

InstallError(msg) == [kind |-> "error", type |-> "InstallError", msg |-> msg]
DownloadFailed == InstallError("Failed to download")
SubdirNotFound == InstallError("Subdirectory not found after download")

Return(path) == [kind |-> "ok", path |-> path]
Raise(err) == [kind |-> "raise", error |-> err]

-----------------------------------------------------------------------------
(* sources.py: FileSource, PackageSource *)

FileScheme == <<"f", "i", "l", "e", ":", "/", "/">>
Dot == <<".">>
\* the process's working directory, against which Path.resolve() completes a
\* relative path
Cwd == <<"/", "c", "w", "d">>

\* Path(s).resolve() on paths without symlinks or '..' components
PathResolve(p) ==
    IF StartsWith(p, Slash) THEN p
    ELSE IF p = <<>> \/ p = Dot THEN Cwd
    ELSE IF StartsWith(p, Dot \o Slash) THEN Cwd \o Slash \o SubSeq(p, 3, Len(p))
    ELSE Cwd \o Slash \o p

\* FileSource.__init__ given a pathlib.Path
FileSourceOfPath(p) == [kind |-> "file", path |-> PathResolve(p)]

\* FileSource.__init__ given a str: a leading file:// is removed first
FileSourceOfStr(s) ==
    FileSourceOfPath(IF StartsWith(s, FileScheme) THEN SubSeq(s, Len(FileScheme) + 1, Len(s)) ELSE s)

PackageSource(name) == [kind |-> "package", name |-> name]

ModuleResolutionError(msg) ==
    [kind |-> "error", type |-> "ModuleResolutionError", msg |-> msg]
PathNotFound == ModuleResolutionError("Module path not found")
NotADirectory == ModuleResolutionError("Module path is not a directory")
NotAValidModule == ModuleResolutionError("Path does not contain a valid Python module")

\* FileSource._is_valid_module: any(path.glob("**/*.py")), which yields nothing
\* for a path that is not a directory
IsValidModule(d) == d.exists /\ d.is_dir /\ d.py

\* FileSource.resolve without the is_dir check
FileResolve_NoDirCheck(src, d) ==
    IF ~d.exists THEN Raise(PathNotFound)
    ELSE IF ~IsValidModule(d) THEN Raise(NotAValidModule)
    ELSE Return(src.path)

\* FileSource.resolve, with d what lies on disk at self.path
FileResolve(src, d) ==
    IF ~d.exists THEN Raise(PathNotFound)
    ELSE IF ~d.is_dir THEN Raise(NotADirectory)
    ELSE IF ~IsValidModule(d) THEN Raise(NotAValidModule)
    ELSE Return(src.path)

-----------------------------------------------------------------------------
(* resolvers.py: descriptors and _parse_source *)

\* a Python value handed to _parse_source: None, a str or a dict
PyNone == [py |-> "None"]
PyStr(s) == [py |-> "str", v |-> s]
PyDict(d) == [py |-> "dict", v |-> d]
EmptyDict == [k \in {} |-> <<>>]

\* bool(x)
Truthy(x) ==
    CASE x.py = "None" -> FALSE
      [] x.py = "str"  -> x.v # <<>>
      [] x.py = "dict" -> DOMAIN x.v # {}

\* dict.get(key)
DictGet(d, key) == IF key \in DOMAIN d THEN Some(d[key]) ELSE NoneVal

KeyError(key) == [kind |-> "error", type |-> "KeyError", msg |-> key]

TypeGit == <<"g", "i", "t">>
TypeFile == <<"f", "i", "l", "e">>
TypePackage == <<"p", "a", "c", "k", "a", "g", "e">>

\* _parse_source that takes an unknown type tag for a package name
ParseSource_UnknownTypeIsPackage(source, module_id) ==
    IF source.py = "dict"
    THEN LET source_type == DictGet(source.v, "type")
         IN  IF source_type = Some(TypeGit)
             THEN IF "url" \notin DOMAIN source.v THEN KeyError("url")
                  ELSE GitSource(source.v["url"],
                                 IF "ref" \in DOMAIN source.v THEN source.v["ref"] ELSE MainRef,
                                 DictGet(source.v, "subdirectory"))
             ELSE IF source_type = Some(TypeFile)
             THEN IF "path" \notin DOMAIN source.v THEN KeyError("path")
                  ELSE FileSourceOfStr(source.v["path"])
             ELSE IF "name" \notin DOMAIN source.v THEN KeyError("name")
                  ELSE PackageSource(source.v["name"])
    ELSE IF StartsWith(source.v, GitPlus) THEN from_uri(source.v)
    ELSE IF \/ StartsWith(source.v, FileScheme)
            \/ StartsWith(source.v, Slash)
            \/ StartsWith(source.v, Dot)
         THEN FileSourceOfStr(source.v)
    ELSE PackageSource(source.v)

\* StandardModuleSourceResolver._parse_source
ParseSource(source, module_id) ==
    IF source.py = "dict"
    THEN LET source_type == DictGet(source.v, "type")
         IN  IF source_type = Some(TypeGit)
             THEN IF "url" \notin DOMAIN source.v THEN KeyError("url")
                  ELSE GitSource(source.v["url"],
                                 IF "ref" \in DOMAIN source.v THEN source.v["ref"] ELSE MainRef,
                                 DictGet(source.v, "subdirectory"))
             ELSE IF source_type = Some(TypeFile)
             THEN IF "path" \notin DOMAIN source.v THEN KeyError("path")
                  ELSE FileSourceOfStr(source.v["path"])
             ELSE IF source_type = Some(TypePackage)
             THEN IF "name" \notin DOMAIN source.v THEN KeyError("name")
                  ELSE PackageSource(source.v["name"])
             ELSE ValueError("Invalid source type")
    ELSE IF StartsWith(source.v, GitPlus) THEN from_uri(source.v)
    ELSE IF \/ StartsWith(source.v, FileScheme)
            \/ StartsWith(source.v, Slash)
            \/ StartsWith(source.v, Dot)
         THEN FileSourceOfStr(source.v)
    ELSE PackageSource(source.v)

-----------------------------------------------------------------------------
(* resolvers.py: StandardModuleSourceResolver *)

LowerCase == <<"a", "b", "c", "d", "e", "f", "g", "h", "i", "j", "k", "l", "m", "n", "o", "p", "q", "r", "s", "t", "u", "v", "w", "x", "y", "z">>
UpperCase == <<"A", "B", "C", "D", "E", "F", "G", "H", "I", "J", "K", "L", "M", "N", "O", "P", "Q", "R", "S", "T", "U", "V", "W", "X", "Y", "Z">>

\* str.upper on one lower-case letter
UpperOf ==
    [c \in { LowerCase[i] : i \in 1..Len(LowerCase) } |->
        UpperCase[CHOOSE i \in 1..Len(LowerCase) : LowerCase[i] = c]]

\* one character of module_id.upper().replace('-', '_')
EnvChar(c) ==
    IF c = "-" THEN "_"
    ELSE IF c \in DOMAIN UpperOf THEN UpperOf[c]
    ELSE c

EnvPrefix == <<"A", "M", "P", "L", "I", "F", "I", "E", "R", "_", "M", "O", "D", "U", "L", "E", "_">>

\* env_key of resolve_with_layer
EnvKey(module_id) == EnvPrefix \o [i \in 1..Len(module_id) |-> EnvChar(module_id[i])]

\* os.getenv(key): None when the variable is not set
Getenv(key) == IF key \in DOMAIN environ THEN Some(environ[key]) ELSE NoneVal

\* what resolve_with_layer hands back: a (source, layer) pair, or the exception
\* raised while building the source
Returned(source, layer) ==
    IF source.kind = "error"
    THEN [kind |-> "raise", error |-> source]
    ELSE [kind |-> "ok", source |-> source, layer |-> layer]

\* self.workspace_dir / module_id
WorkspacePath(module_id) == workspace_dir[1] \o Slash \o module_id

\* any(path.glob("**/*.py")): a missing path or a plain file yields nothing
HasPy(d) == d.exists /\ d.is_dir /\ d.py

\* StandardModuleSourceResolver._is_empty_submodule
IsEmptySubmodule(d) == d.exists /\ d.is_dir /\ d.git = "file" /\ ~HasPy(d)

\* _check_workspace without the Python-file check
CheckWorkspace_NoPyCheck(module_id) ==
    IF IsNone(workspace_dir) THEN NoneVal
    ELSE IF ~wsfs[module_id].exists THEN NoneVal
    ELSE IF IsEmptySubmodule(wsfs[module_id]) THEN NoneVal
    ELSE Some(FileSourceOfPath(WorkspacePath(module_id)))

\* StandardModuleSourceResolver._check_workspace: Optional FileSource
CheckWorkspace(module_id) ==
    IF IsNone(workspace_dir) THEN NoneVal
    ELSE IF ~wsfs[module_id].exists THEN NoneVal
    ELSE IF IsEmptySubmodule(wsfs[module_id]) THEN NoneVal
    ELSE IF ~HasPy(wsfs[module_id]) THEN NoneVal
    ELSE Some(FileSourceOfPath(WorkspacePath(module_id)))

ConventionPrefix == <<"a", "m", "p", "l", "i", "f", "i", "e", "r", "-", "m", "o", "d", "u", "l", "e", "-">>
ConventionName(module_id) == ConventionPrefix \o module_id

\* the "Resolution attempted" lines of the not-found message: what each line
\* names and the reason it gives
NotFoundLines(module_id) ==
    [env         |-> [names |-> Some(EnvKey(module_id)), why |-> "not set"],
     workspace   |-> [names |-> IF IsNone(workspace_dir) THEN NoneVal
                                ELSE Some(WorkspacePath(module_id)),
                      why |-> "not found"],
     settings    |-> [names |-> NoneVal, why |-> "no entry"],
     collections |-> [names |-> NoneVal, why |-> "no registered module"],
     profile     |-> [names |-> NoneVal, why |-> "no source specified"],
     package     |-> [names |-> Some(module_id \o <<" ">> \o ConventionName(module_id)),
                      why |-> "neither installed"]]

ModuleNotFound(module_id) ==
    [kind |-> "error", type |-> "ModuleResolutionError", msg |-> "Module not found",
     lines |-> NotFoundLines(module_id)]

\* StandardModuleSourceResolver._resolve_package
ResolvePackage(module_id) ==
    IF module_id \in installed THEN PackageSource(module_id)
    ELSE IF ConventionName(module_id) \in installed
         THEN PackageSource(ConventionName(module_id))
    ELSE ModuleNotFound(module_id)

\* resolve_with_layer from layer 6
FromPackage(module_id) == Returned(ResolvePackage(module_id), "package")

\* resolve_with_layer from layer 5
FromProfile(module_id, profile_hint) ==
    IF Truthy(profile_hint)
    THEN Returned(ParseSource(profile_hint, module_id), "profile")
    ELSE FromPackage(module_id)

\* resolve_with_layer from layer 4
FromCollection(module_id, profile_hint) ==
    IF ~IsNone(collection_provider) /\ module_id \in DOMAIN collection_provider[1]
    THEN Returned(FileSourceOfPath(collection_provider[1][module_id]), "collection")
    ELSE FromProfile(module_id, profile_hint)

\* layer 3 with a parse failure swallowed: resolution goes on to layer 4
FromSettings_SkipOnError(module_id, profile_hint) ==
    IF /\ ~IsNone(settings_provider)
       /\ module_id \in DOMAIN settings_provider[1]
       /\ ParseSource(settings_provider[1][module_id], module_id).kind # "error"
    THEN Returned(ParseSource(settings_provider[1][module_id], module_id), "settings")
    ELSE FromCollection(module_id, profile_hint)

\* resolve_with_layer from layer 3
FromSettings(module_id, profile_hint) ==
    IF ~IsNone(settings_provider) /\ module_id \in DOMAIN settings_provider[1]
    THEN Returned(ParseSource(settings_provider[1][module_id], module_id), "settings")
    ELSE FromCollection(module_id, profile_hint)

\* resolve_with_layer from layer 2
FromWorkspace(module_id, profile_hint) ==
    IF ~IsNone(workspace_dir) /\ ~IsNone(CheckWorkspace(module_id))
    THEN Returned(CheckWorkspace(module_id)[1], "workspace")
    ELSE FromSettings(module_id, profile_hint)

\* resolve_with_layer that looks at the workspace before the environment
resolve_with_layer_WorkspaceFirst(module_id, profile_hint) ==
    IF ~IsNone(workspace_dir) /\ ~IsNone(CheckWorkspace(module_id))
    THEN Returned(CheckWorkspace(module_id)[1], "workspace")
    ELSE IF TruthyOpt(Getenv(EnvKey(module_id)))
    THEN Returned(ParseSource(PyStr(Getenv(EnvKey(module_id))[1]), module_id), "env")
    ELSE FromSettings(module_id, profile_hint)

\* StandardModuleSourceResolver.resolve_with_layer
resolve_with_layer(module_id, profile_hint) ==
    IF TruthyOpt(Getenv(EnvKey(module_id)))
    THEN Returned(ParseSource(PyStr(Getenv(EnvKey(module_id))[1]), module_id), "env")
    ELSE FromWorkspace(module_id, profile_hint)

-----------------------------------------------------------------------------
(* Components whose operations are not running keep these values *)

NoSource == [kind |-> "none"]
NoCall == [made |-> FALSE]
NoResult == [kind |-> "none"]

UriIdle ==
    /\ uri = <<>>
    /\ parsed = NoSource
    /\ rendered = <<>>
    /\ reparsed = NoSource
    /\ upc = "idle"

ResolverIdle ==
    /\ environ = <<>>
    /\ workspace_dir = NoneVal
    /\ wsfs = <<>>
    /\ settings_provider = NoneVal
    /\ collection_provider = NoneVal
    /\ installed = {}
    /\ call = NoCall
    /\ result = NoResult

FileIdle ==
    /\ fpath = NoneVal
    /\ fsource = NoSource
    /\ fdisk = <<>>
    /\ fout = NoResult

GitIdle ==
    /\ cachefs = <<>>
    /\ gpc = <<>>
    /\ gsrc = <<>>
    /\ gfetches = <<>>
    /\ gfetch = <<>>
    /\ gout = <<>>
    /\ gseen = <<>>
    /\ ncalls = 0

-----------------------------------------------------------------------------
(* GitSource.from_uri applied to bounded inputs, rendered back and re-parsed *)

\* longest input, counted in pieces
MaxPieces == 5

\* the pieces inputs are assembled from: url/ref/path text, '@', '#subdirectory='
Pieces == { <<"h">>, <<"v">>, AtSign, SubdirMarker }

RECURSIVE Flatten(_)
Flatten(ps) == IF ps = <<>> THEN <<>> ELSE Head(ps) \o Flatten(Tail(ps))

PieceSeqs == UNION { [1..n -> Pieces] : n \in 0..MaxPieces }

\* "https://h/o/r"
ExampleUrl == <<"h", "t", "t", "p", "s", ":", "/", "/", "h", "/", "o", "/", "r">>
\* "git+https://h/o/r@v1#subdirectory=p"
ExampleUri == GitPlus \o ExampleUrl \o <<"@", "v", "1">> \o SubdirMarker \o <<"p">>

UriInputs ==
    { pre \o Flatten(ps) : pre \in {GitPlus, <<>>}, ps \in PieceSeqs }
        \cup {ExampleUri, ExampleUrl, GitPlus \o ExampleUrl}

InitUri ==
    /\ uri \in UriInputs
    /\ parsed = NoSource
    /\ rendered = <<>>
    /\ reparsed = NoSource
    /\ upc = "start"
    /\ ResolverIdle
    /\ GitIdle
    /\ FileIdle

\* GitSource.from_uri(uri)
ParseUri ==
    /\ upc = "start"
    /\ parsed' = from_uri(uri)
    /\ upc' = "parsed"
    /\ UNCHANGED <<uri, rendered, reparsed, rvars, gvars, fvars>>

\* the descriptor string of the parsed source (git_url of _download_via_uv)
RenderUri ==
    /\ upc = "parsed"
    /\ parsed.kind = "git"
    /\ rendered' = GitUrl(parsed)
    /\ upc' = "rendered"
    /\ UNCHANGED <<uri, parsed, reparsed, rvars, gvars, fvars>>

\* GitSource.from_uri(rendered)
ReparseUri ==
    /\ upc = "rendered"
    /\ reparsed' = from_uri(rendered)
    /\ upc' = "done"
    /\ UNCHANGED <<uri, parsed, rendered, rvars, gvars, fvars>>

NextUri == ParseUri \/ RenderUri \/ ReparseUri

SpecUri == InitUri /\ [][NextUri]_vars


-----------------------------------------------------------------------------
(* Properties of GitSource.from_uri *)

\* the text of uri after the "git+" prefix
AfterPrefix(u) == SubSeq(u, Len(GitPlus) + 1, Len(u))

\* url+ref text of a parsed source, as it stood in the input
UrlRefText(src, rest) ==
    IF IsNone(src.subdirectory)
    THEN rest
    ELSE SubSeq(rest, 1, Len(rest) - Len(src.subdirectory[1]) - Len(SubdirMarker))

\* the ref is cut at the LAST '@' of the url+ref text, "main" without one
RefCutAtLastAt(src, urlref) ==
    IF Contains(urlref, AtSign)
    THEN /\ urlref = src.url \o AtSign \o src.ref
         /\ ~Contains(src.ref, AtSign)
    ELSE /\ src.url = urlref
         /\ src.ref = MainRef

\* the subdirectory is everything after the marker occurrence numbered by pick
SubdirCutAt(src, rest, pick(_)) ==
    IF Contains(rest, SubdirMarker)
    THEN /\ ~IsNone(src.subdirectory)
         /\ rest = SubSeq(rest, 1, pick(Occurrences(rest, SubdirMarker)) - 1)
                     \o SubdirMarker \o src.subdirectory[1]
    ELSE IsNone(src.subdirectory)

ParsedGit == upc # "start" /\ parsed.kind = "git"

\* C3 as stated: the subdirectory is cut at the LAST '#subdirectory=', then the
\* ref at the last '@' of what precedes it; 'git+https://h/o/r@v1#subdirectory=p'
\* gives url 'https://h/o/r', ref 'v1', subdirectory 'p'.
C3_LastMarker ==
    ParsedGit =>
        /\ SubdirCutAt(parsed, AfterPrefix(uri), SetMax)
        /\ RefCutAtLastAt(parsed, UrlRefText(parsed, AfterPrefix(uri)))
        /\ (uri = ExampleUri =>
                parsed = GitSource(ExampleUrl, <<"v", "1">>, Some(<<"p">>)))

\* C3 amended: the subdirectory is cut at the FIRST '#subdirectory=' (it is
\* everything after that first occurrence), then the ref at the last '@' of what
\* precedes it; ref is 'main' without '@', subdirectory absent without the
\* marker; 'git+https://h/o/r@v1#subdirectory=p' gives 'https://h/o/r', 'v1', 'p'.
C3_FirstMarker ==
    ParsedGit =>
        /\ SubdirCutAt(parsed, AfterPrefix(uri), SetMin)
        /\ RefCutAtLastAt(parsed, UrlRefText(parsed, AfterPrefix(uri)))
        /\ (uri = ExampleUri =>
                parsed = GitSource(ExampleUrl, <<"v", "1">>, Some(<<"p">>)))

\* a parsed input with two markers and two '@' before the first of them
C3_Witness ==
    /\ ParsedGit
    /\ Cardinality(Occurrences(uri, SubdirMarker)) >= 2
    /\ Cardinality(Occurrences(parsed.url \o AtSign \o parsed.ref, AtSign)) >= 2
    /\ Contains(parsed.subdirectory[1], SubdirMarker)

\* a 'git+' URI in which a '#subdirectory=' marker, when present, is followed
\* by a path
WellFormedGitUri(u) ==
    /\ StartsWith(u, GitPlus)
    /\ LET occ == Occurrences(u, SubdirMarker)
       IN  occ # {} => SetMin(occ) + Len(SubdirMarker) <= Len(u)

\* C10: for every well-formed 'git+' URI, parsing the rendered descriptor of
\* from_uri(uri) gives the same url, ref and subdirectory as from_uri(uri).
C10_RoundTrip ==
    (upc = "done" /\ WellFormedGitUri(uri)) =>
        /\ reparsed.kind = "git"
        /\ reparsed.url = parsed.url
        /\ reparsed.ref = parsed.ref
        /\ reparsed.subdirectory = parsed.subdirectory

\* a round trip of an input without '@ref' and with a subdirectory, whose
\* rendering differs from the input
C10_Witness ==
    /\ upc = "done"
    /\ WellFormedGitUri(uri)
    /\ ~Contains(uri, AtSign)
    /\ TruthyOpt(parsed.subdirectory)
    /\ rendered # uri
    /\ reparsed = parsed


-----------------------------------------------------------------------------
(* resolve_with_layer applied to bounded configurations of the six layers *)

ModuleIds == { <<"f", "o", "o">>, <<"m", "y", "-", "m", "o", "d">> }

StrEmpty == <<>>
\* "git+h@v#subdirectory=p"
StrGitFull == GitPlus \o <<"h", "@", "v">> \o SubdirMarker \o <<"p">>
\* "git+h"
StrGitBare == GitPlus \o <<"h">>
StrAbsPath == <<"/", "p">>
StrRelPath == <<".", "/", "p">>
StrFileUri == <<"f", "i", "l", "e", ":", "/", "/", "/", "p">>
StrPkg == <<"p", "k", "g">>
TypeSvn == <<"s", "v", "n">>

EnvValues == { StrEmpty, StrGitFull, StrAbsPath, StrPkg }

DictGitFull == PyDict([type |-> TypeGit, url |-> <<"h">>, ref |-> <<"v">>, subdirectory |-> <<"p">>])
DictGitUrlOnly == PyDict([type |-> TypeGit, url |-> <<"h">>])
DictGitNoUrl == PyDict([type |-> TypeGit, ref |-> <<"v">>])
DictFile == PyDict([type |-> TypeFile, path |-> StrAbsPath])
DictFileNoPath == PyDict([type |-> TypeFile])
DictPackage == PyDict([type |-> TypePackage, name |-> StrPkg])
DictSvn == PyDict([type |-> TypeSvn, url |-> <<"h">>])
DictNoType == PyDict([url |-> <<"h">>])

SettingsValues ==
    { PyStr(StrGitBare), PyStr(ExampleUrl), PyStr(StrFileUri),
      DictGitFull, DictGitNoUrl, DictSvn, DictNoType }

CollectionPaths == { <<"/", "c">> }

ProfileHints ==
    { PyNone, PyStr(StrEmpty), PyDict(EmptyDict), PyStr(StrRelPath), PyStr(StrPkg),
      DictPackage, DictGitUrlOnly, DictSvn, DictFile, DictFileNoPath }

Missing == [exists |-> FALSE, is_dir |-> FALSE, git |-> "none", py |-> FALSE]
PlainFile == [exists |-> TRUE, is_dir |-> FALSE, git |-> "none", py |-> FALSE]

\* what can be at <workspace_dir>/<module_id>: nothing, a plain file, or a
\* directory with or without a .git entry (file or directory) and with or without
\* Python files beneath it
DirStates ==
    { Missing, PlainFile }
        \cup { [exists |-> TRUE, is_dir |-> TRUE, git |-> g, py |-> p] :
                   g \in {"none", "file", "dir"}, p \in BOOLEAN }

WorkspaceRoot == <<"/", "w", "s">>

\* a mapping holding at most an entry for module id t
EntryFor(t, values) ==
    { [m \in {} |-> <<>>] } \cup { [m \in {t} |-> v] : v \in values }

InitResolver ==
    \E t \in ModuleIds :
        /\ environ \in EntryFor(EnvKey(t), EnvValues)
        /\ \/ /\ workspace_dir = NoneVal
              /\ wsfs = [m \in ModuleIds |-> Missing]
           \/ /\ workspace_dir = Some(WorkspaceRoot)
              /\ \E d \in DirStates :
                     wsfs = [m \in ModuleIds |-> IF m = t THEN d ELSE Missing]
        /\ settings_provider \in {NoneVal} \cup { Some(f) : f \in EntryFor(t, SettingsValues) }
        /\ collection_provider \in {NoneVal} \cup { Some(f) : f \in EntryFor(t, CollectionPaths) }
        /\ installed \in SUBSET {t, ConventionName(t)}
        /\ call = NoCall
        /\ result = NoResult
        /\ UriIdle
        /\ GitIdle
        /\ FileIdle

\* a caller runs resolve_with_layer(module_id, profile_hint).  The resolver keeps
\* no state between calls, so each behaviour observes one call.
ResolveWithLayer ==
    \E m \in ModuleIds, hint \in ProfileHints :
        /\ ~call.made
        /\ call' = [made |-> TRUE, module_id |-> m, profile_hint |-> hint]
        /\ result' = resolve_with_layer(m, hint)
        /\ UNCHANGED <<environ, workspace_dir, wsfs, settings_provider,
                       collection_provider, installed, uvars, gvars, fvars>>

\* what lies on disk at an absolute path: the model holds the directories
\* <workspace root>/<module id>
DiskAt(path) ==
    IF \E m \in ModuleIds : path = WorkspaceRoot \o Slash \o m
    THEN wsfs[CHOOSE m \in ModuleIds : path = WorkspaceRoot \o Slash \o m]
    ELSE Missing

\* the caller runs source.resolve() on the FileSource the workspace layer
\* returned, the filesystem being as it was during resolve_with_layer
ResolveWorkspaceSource ==
    /\ call.made
    /\ result.kind = "ok"
    /\ result.layer = "workspace"
    /\ fout = NoResult
    /\ fsource' = result.source
    /\ fdisk' = DiskAt(result.source.path)
    /\ fout' = FileResolve(result.source, DiskAt(result.source.path))
    /\ UNCHANGED <<fpath, rvars, uvars, gvars>>

NextResolver == ResolveWithLayer \/ ResolveWorkspaceSource

SpecResolver == InitResolver /\ [][NextResolver]_vars


-----------------------------------------------------------------------------
(* Properties of resolve_with_layer *)

LayerOrder == <<"env", "workspace", "settings", "collection", "profile", "package">>

\* whether a layer holds a value for module id m (the package layer, the last
\* resort, always takes over)
EnvSet(m) == EnvKey(m) \in DOMAIN environ /\ environ[EnvKey(m)] # <<>>
WorkspaceHas(m) ==
    /\ workspace_dir # NoneVal
    /\ wsfs[m].exists
    /\ ~(wsfs[m].git = "file" /\ ~wsfs[m].py)
    /\ wsfs[m].py
SettingsHas(m) == settings_provider # NoneVal /\ m \in DOMAIN settings_provider[1]
CollectionHas(m) == collection_provider # NoneVal /\ m \in DOMAIN collection_provider[1]
HintGiven(hint) == Truthy(hint)

Matches(layer, m, hint) ==
    CASE layer = "env"        -> EnvSet(m)
      [] layer = "workspace"  -> WorkspaceHas(m)
      [] layer = "settings"   -> SettingsHas(m)
      [] layer = "collection" -> CollectionHas(m)
      [] layer = "profile"    -> HintGiven(hint)
      [] layer = "package"    -> TRUE

\* the first layer, in layer order, that holds a value
FirstMatch(m, hint) ==
    LayerOrder[SetMin({ i \in 1..Len(LayerOrder) : Matches(LayerOrder[i], m, hint) })]

\* the descriptor a parsing layer holds
LayerDescriptor(layer, m, hint) ==
    CASE layer = "env"      -> PyStr(environ[EnvKey(m)])
      [] layer = "settings" -> settings_provider[1][m]
      [] layer = "profile"  -> hint

ParsingLayers == {"env", "settings", "profile"}

\* the Source built from one layer's value alone
LayerSource(layer, m, hint) ==
    CASE layer \in ParsingLayers -> ParseSource(LayerDescriptor(layer, m, hint), m)
      [] layer = "workspace"  -> [kind |-> "file", path |-> WorkspaceRoot \o Slash \o m]
      [] layer = "collection" -> [kind |-> "file", path |-> collection_provider[1][m]]
      [] layer = "package"    ->
            IF m \in installed THEN PackageSource(m) ELSE PackageSource(ConventionName(m))

\* C1: the returned layer is the first layer in layer order that matches, the
\* returned Source is built from that layer's value alone, and a set environment
\* variable wins as layer 'env' however the other five layers are configured.
C1_StrictPrecedence ==
    call.made =>
        LET m == call.module_id
            hint == call.profile_hint
        IN  /\ result.kind = "ok" =>
                  /\ result.layer = FirstMatch(m, hint)
                  /\ result.source = LayerSource(result.layer, m, hint)
            /\ \A i, j \in 1..Len(LayerOrder) :
                  (/\ i < j
                   /\ Matches(LayerOrder[i], m, hint)
                   /\ Matches(LayerOrder[j], m, hint)
                   /\ result.kind = "ok") => result.layer # LayerOrder[j]
            /\ (EnvSet(m) /\ LayerSource("env", m, hint).kind # "error") =>
                  /\ result.kind = "ok"
                  /\ result.layer = "env"
                  /\ result.source = LayerSource("env", m, hint)

\* all six layers hold a value for the module and 'env' is returned
C1_Witness ==
    /\ call.made
    /\ EnvSet(call.module_id)
    /\ WorkspaceHas(call.module_id)
    /\ SettingsHas(call.module_id)
    /\ CollectionHas(call.module_id)
    /\ HintGiven(call.profile_hint)
    /\ call.module_id \in installed
    /\ result.kind = "ok"
    /\ result.layer = "env"

IsParseError(e) == e.kind = "error" /\ e.type \in {"ValueError", "KeyError"}

\* C2: when the first layer holding a value is env, settings or profile and
\* parsing its value fails, that error is what the call raises (no later layer
\* answers); layers holding no value raise nothing and are passed over.
C2_ParseErrorPropagates ==
    call.made =>
        LET m == call.module_id
            hint == call.profile_hint
            w == FirstMatch(m, hint)
        IN  /\ (w \in ParsingLayers /\ IsParseError(LayerSource(w, m, hint))) =>
                  result = [kind |-> "raise", error |-> LayerSource(w, m, hint)]
            /\ (result.kind = "raise" /\ IsParseError(result.error)) =>
                  /\ w \in ParsingLayers
                  /\ result.error = LayerSource(w, m, hint)
            /\ result.kind = "ok" => Matches(result.layer, m, hint)
            /\ (result.kind = "raise" /\ ~IsParseError(result.error)) =>
                  /\ w = "package"
                  /\ installed \cap {m, ConventionName(m)} = {}

\* the settings entry fails to parse while collection, profile hint and package
\* could all answer
C2_Witness ==
    /\ call.made
    /\ FirstMatch(call.module_id, call.profile_hint) = "settings"
    /\ IsParseError(LayerSource("settings", call.module_id, call.profile_hint))
    /\ CollectionHas(call.module_id)
    /\ HintGiven(call.profile_hint)
    /\ call.module_id \in installed
    /\ result.kind = "raise"

KnownTypes == {TypeGit, TypeFile, TypePackage}
UnknownType(d) == d.py = "dict" /\ ("type" \notin DOMAIN d.v \/ d.v["type"] \notin KnownTypes)
KnownPrefix(str) ==
    \/ StartsWith(str, GitPlus)
    \/ StartsWith(str, FileScheme)
    \/ StartsWith(str, Slash)
    \/ StartsWith(str, Dot)
UnknownPrefix(d) == d.py = "str" /\ ~KnownPrefix(d.v)
InvalidFormat(r) == r.kind = "raise" /\ r.error.type = "ValueError"

\* the descriptor the call parsed, when the winning layer is a parsing layer
ParsedDescriptor ==
    LayerDescriptor(FirstMatch(call.module_id, call.profile_hint),
                    call.module_id, call.profile_hint)
CallParsed == call.made /\ FirstMatch(call.module_id, call.profile_hint) \in ParsingLayers

\* C4 as stated: parsing fails with an invalid-format error for a record whose
\* type tag is not git/file/package and for a string whose prefix matches no
\* known scheme.
C4_UnknownFails ==
    CallParsed =>
        /\ UnknownType(ParsedDescriptor) => InvalidFormat(result)
        /\ UnknownPrefix(ParsedDescriptor) => InvalidFormat(result)

\* C4 amended: parsing fails with an invalid-format error for a record whose
\* type tag is not git/file/package; a string descriptor never fails, and a
\* string whose prefix matches no known scheme is taken as a package name.
C4_UnknownTypeFails ==
    CallParsed =>
        /\ UnknownType(ParsedDescriptor) => InvalidFormat(result)
        /\ ParsedDescriptor.py = "str" => result.kind = "ok"
        /\ UnknownPrefix(ParsedDescriptor) =>
              /\ result.kind = "ok"
              /\ result.source = PackageSource(ParsedDescriptor.v)

\* a settings record tagged 'svn' was parsed and rejected
C4_Witness ==
    /\ CallParsed
    /\ ParsedDescriptor = DictSvn
    /\ InvalidFormat(result)

NotFound(r) == r.kind = "raise" /\ r.error.type = "ModuleResolutionError"

\* why each layer did not resolve in a call that fell through all of them
ActualReason(layer, m) ==
    CASE layer = "env" ->
            IF EnvKey(m) \in DOMAIN environ THEN "set but empty" ELSE "not set"
      [] layer = "workspace" ->
            IF workspace_dir = NoneVal THEN "not configured"
            ELSE IF ~wsfs[m].exists THEN "not found"
            ELSE IF wsfs[m].is_dir /\ wsfs[m].git = "file" THEN "empty submodule"
            ELSE "no source files"
      [] layer = "settings" ->
            IF settings_provider = NoneVal THEN "no provider" ELSE "no entry"
      [] layer = "collections" ->
            IF collection_provider = NoneVal THEN "no provider" ELSE "no registered module"
      [] layer = "profile" -> "no source specified"
      [] layer = "package" -> "neither installed"

\* the reason a line of the message gives: 'N/A' in place of the workspace path
\* says that no workspace is configured
StatedReason(layer, line) ==
    IF layer = "workspace" /\ line.names = NoneVal THEN "not configured" ELSE line.why

MessageLayers == {"env", "workspace", "settings", "collections", "profile", "package"}

\* C8: the not-found error has one line per layer, and each line states the
\* actual reason that layer did not resolve in this call.
C8_ActualReasons ==
    (call.made /\ NotFound(result)) =>
        /\ DOMAIN result.error.lines = MessageLayers
        /\ \A layer \in MessageLayers :
              StatedReason(layer, result.error.lines[layer])
                  = ActualReason(layer, call.module_id)

Rejected(d) == ~d.exists \/ (d.git = "file" /\ ~d.py) \/ ~d.py

\* C9: with a workspace root configured and the env layer not answering, a
\* missing directory, an empty submodule placeholder or a directory without
\* source files makes the call go on exactly as from the settings layer (never
\* layer 'workspace', nothing raised for the workspace); any other directory is
\* returned as a FileSource of <workspace_root>/<module_id> with layer
\* 'workspace'.
C9_WorkspaceFallthrough ==
    (call.made /\ ~EnvSet(call.module_id) /\ workspace_dir # NoneVal) =>
        IF Rejected(wsfs[call.module_id])
        THEN /\ result.kind = "ok" => result.layer # "workspace"
             /\ result = FromSettings(call.module_id, call.profile_hint)
        ELSE result = [kind |-> "ok",
                       source |-> [kind |-> "file",
                                   path |-> WorkspaceRoot \o Slash \o call.module_id],
                       layer |-> "workspace"]

\* an empty submodule placeholder in the workspace was passed over and the
\* settings layer answered
C9_Witness ==
    /\ call.made
    /\ ~EnvSet(call.module_id)
    /\ workspace_dir # NoneVal
    /\ wsfs[call.module_id].exists
    /\ wsfs[call.module_id].git = "file"
    /\ ~wsfs[call.module_id].py
    /\ result.kind = "ok"
    /\ result.layer = "settings"


-----------------------------------------------------------------------------
(* GitSource.resolve run by concurrent callers against one cache root *)

\* resolve() calls started in one behaviour
MaxCalls == 3

Procs == {"p1", "p2"}

GitRefs == { MainRef, <<"v">> }
GitSubdirs == { NoneVal, Some(<<"a">>) }
GitSources == { GitSource(<<"h">>, r, sd) : r \in GitRefs, sd \in GitSubdirs }
CachePaths == { CachePath(src) : src \in GitSources }

SubdirNames == { sd[1] : sd \in GitSubdirs \ {NoneVal} }

\* the states a cache path can be in
CacheDirStates ==
    {NoDir} \cup { [exists |-> TRUE, py |-> p, subs |-> ss] :
                       p \in BOOLEAN, ss \in SUBSET SubdirNames }

\* the cache only grows: entries are added or overwritten, never deleted
Grows(d, e) == (d.exists => e.exists) /\ (d.py => e.py) /\ d.subs \subseteq e.subs

NoSnapshot == [check |-> NoDir, verify |-> NoDir]

InitGit ==
    /\ cachefs \in [CachePaths -> CacheDirStates]
    /\ gpc = [p \in Procs |-> "idle"]
    /\ gsrc = [p \in Procs |-> NoSource]
    /\ gfetches = [p \in Procs |-> 0]
    /\ gfetch = [p \in Procs |-> "none"]
    /\ gout = [p \in Procs |-> NoResult]
    /\ gseen = [p \in Procs |-> NoSnapshot]
    /\ ncalls = 0
    /\ UriIdle
    /\ ResolverIdle
    /\ FileIdle

\* resolve() up to the cache check: a hit returns final_path, a miss goes on to
\* the download
ResolveCheck(p, src) ==
    /\ gpc[p] = "idle"
    /\ ncalls < MaxCalls
    /\ ncalls' = ncalls + 1
    /\ gsrc' = [gsrc EXCEPT ![p] = src]
    /\ gfetches' = [gfetches EXCEPT ![p] = 0]
    /\ gfetch' = [gfetch EXCEPT ![p] = "none"]
    /\ gseen' = [gseen EXCEPT ![p] = [check |-> cachefs[CachePath(src)], verify |-> NoDir]]
    /\ IF CacheHit(src)
       THEN /\ gout' = [gout EXCEPT ![p] = Return(FinalPath(src))]
            /\ gpc' = [gpc EXCEPT ![p] = "idle"]
       ELSE /\ gout' = [gout EXCEPT ![p] = NoResult]
            /\ gpc' = [gpc EXCEPT ![p] = "download"]
    /\ UNCHANGED <<cachefs, uvars, rvars, fvars>>

\* a download that waits while another caller downloads into the same cache path
DownloadStart_Locked(p) ==
    /\ gpc[p] = "download"
    /\ \A q \in Procs \ {p} :
           ~(gpc[q] = "downloading" /\ CachePath(gsrc[q]) = CachePath(gsrc[p]))
    /\ gfetches' = [gfetches EXCEPT ![p] = @ + 1]
    /\ gpc' = [gpc EXCEPT ![p] = "downloading"]
    /\ UNCHANGED <<cachefs, gsrc, gfetch, gout, gseen, ncalls, uvars, rvars, fvars>>

\* resolve() calls _download_via_uv(cache_path): the install command starts
DownloadStart(p) ==
    /\ gpc[p] = "download"
    /\ gfetches' = [gfetches EXCEPT ![p] = @ + 1]
    /\ gpc' = [gpc EXCEPT ![p] = "downloading"]
    /\ UNCHANGED <<cachefs, gsrc, gfetch, gout, gseen, ncalls, uvars, rvars, fvars>>

\* the install command exits non-zero (CalledProcessError), leaving whatever it
\* wrote; resolve() raises InstallError
DownloadFails(p) ==
    /\ gpc[p] = "downloading"
    /\ \E d \in CacheDirStates :
           /\ Grows(cachefs[CachePath(gsrc[p])], d)
           /\ cachefs' = [cachefs EXCEPT ![CachePath(gsrc[p])] = d]
    /\ gfetch' = [gfetch EXCEPT ![p] = "failed"]
    /\ gout' = [gout EXCEPT ![p] = Raise(DownloadFailed)]
    /\ gpc' = [gpc EXCEPT ![p] = "idle"]
    /\ UNCHANGED <<gsrc, gfetches, gseen, ncalls, uvars, rvars, fvars>>

\* the install command exits zero, having written whatever it wrote
DownloadSucceeds(p) ==
    /\ gpc[p] = "downloading"
    /\ \E d \in CacheDirStates :
           /\ Grows(cachefs[CachePath(gsrc[p])], d)
           /\ cachefs' = [cachefs EXCEPT ![CachePath(gsrc[p])] = d]
    /\ gfetch' = [gfetch EXCEPT ![p] = "ok"]
    /\ gpc' = [gpc EXCEPT ![p] = "verify"]
    /\ UNCHANGED <<gsrc, gfetches, gout, gseen, ncalls, uvars, rvars, fvars>>

\* resolve() after the download: final_path must exist
VerifyFinalPath(p) ==
    /\ gpc[p] = "verify"
    /\ gseen' = [gseen EXCEPT ![p].verify = cachefs[CachePath(gsrc[p])]]
    /\ gout' = [gout EXCEPT ![p] =
                   IF FinalPathExists(gsrc[p])
                   THEN Return(FinalPath(gsrc[p]))
                   ELSE Raise(SubdirNotFound)]
    /\ gpc' = [gpc EXCEPT ![p] = "idle"]
    /\ UNCHANGED <<cachefs, gsrc, gfetches, gfetch, ncalls, uvars, rvars, fvars>>

NextGit ==
    \E p \in Procs :
        \/ \E src \in GitSources : ResolveCheck(p, src)
        \/ DownloadStart(p)
        \/ DownloadFails(p)
        \/ DownloadSucceeds(p)
        \/ VerifyFinalPath(p)

SpecGit == InitGit /\ [][NextGit]_vars


-----------------------------------------------------------------------------
(* Properties of GitSource.resolve *)

\* caller p has started a resolve() call
Calling(p) == gsrc[p] # NoSource
\* the last call of p has returned or raised
Finished(p) == Calling(p) /\ gpc[p] = "idle"
\* the cache path held a source file when the call of p checked it
FoundValid(p) == gseen[p].check.exists /\ gseen[p].check.py

\* C5: a call that finds its cache path existing with a source file beneath it
\* returns final_path at once and never invokes _download_via_uv.
C5_CacheHitNoFetch ==
    \A p \in Procs :
        (Calling(p) /\ FoundValid(p)) =>
            /\ gfetches[p] = 0
            /\ gfetch[p] = "none"
            /\ gpc[p] = "idle"
            /\ gout[p] = Return(FinalPath(gsrc[p]))

\* a second or later call hit the cache and returned without a download
C5_Witness ==
    \E p \in Procs :
        /\ ncalls >= 2
        /\ Finished(p)
        /\ FoundValid(p)
        /\ gfetches[p] = 0
        /\ gout[p].kind = "ok"

\* C6: a call that finds its cache path absent, or present without a source
\* file, invokes _download_via_uv exactly once, whether the download succeeds
\* or fails; a failed download is raised as the download InstallError and the
\* call ends there.
C6_CacheMissOneFetch ==
    \A p \in Procs :
        (Calling(p) /\ ~FoundValid(p)) =>
            /\ gfetches[p] <= 1
            /\ gpc[p] = "download" => gfetches[p] = 0
            /\ gpc[p] \in {"downloading", "verify", "idle"} => gfetches[p] = 1
            /\ gfetch[p] = "failed" =>
                  /\ gpc[p] = "idle"
                  /\ gout[p] = Raise(DownloadFailed)
            /\ (gpc[p] = "idle" /\ gfetch[p] = "ok") => gout[p] # Raise(DownloadFailed)

\* a call found an existing cache path without source files, downloaded once,
\* and the download failed
C6_Witness ==
    \E p \in Procs :
        /\ Finished(p)
        /\ gseen[p].check.exists
        /\ ~gseen[p].check.py
        /\ gfetches[p] = 1
        /\ gfetch[p] = "failed"
        /\ gout[p] = Raise(DownloadFailed)

\* C7: after a download that reported success the call returns final_path only
\* if it existed when checked; otherwise it raises the subdirectory-not-found
\* error, which differs from the error of a failed download.
C7_VerifyAfterFetch ==
    \A p \in Procs :
        (Finished(p) /\ gfetch[p] = "ok") =>
            IF PresentIn(gseen[p].verify, gsrc[p])
            THEN gout[p] = Return(FinalPath(gsrc[p]))
            ELSE /\ gout[p] = Raise(SubdirNotFound)
                 /\ gout[p] # Raise(DownloadFailed)

\* a successful download created the cache path without the requested
\* subdirectory, and the call raised subdirectory-not-found
C7_Witness ==
    \E p \in Procs :
        /\ Finished(p)
        /\ gfetch[p] = "ok"
        /\ TruthyOpt(gsrc[p].subdirectory)
        /\ gseen[p].verify.exists
        /\ gseen[p].verify.py
        /\ gout[p] = Raise(SubdirNotFound)


-----------------------------------------------------------------------------
(* FileSource constructed from bounded path arguments and resolved *)

\* a pathlib.Path argument
PyPath(p) == [py |-> "Path", v |-> p]

FilePathArgs ==
    { PyStr(s) : s \in { StrAbsPath, StrRelPath, StrFileUri, StrPkg, StrEmpty, Dot,
                         FileScheme \o <<"p">> } }
        \cup { PyPath(p) : p \in { StrAbsPath, <<"p">>, WorkspaceRoot \o Slash \o <<"m">> } }

InitFile ==
    /\ fpath \in FilePathArgs
    /\ fsource = NoSource
    /\ fdisk \in DirStates
    /\ fout = NoResult
    /\ UriIdle
    /\ ResolverIdle
    /\ GitIdle

\* FileSource(path)
FileConstruct ==
    /\ fpath \in FilePathArgs
    /\ fsource = NoSource
    /\ fsource' = IF fpath.py = "str" THEN FileSourceOfStr(fpath.v)
                                      ELSE FileSourceOfPath(fpath.v)
    /\ UNCHANGED <<fpath, fdisk, fout, uvars, rvars, gvars>>

\* source.resolve() on the constructed FileSource
FileSourceResolve ==
    /\ fpath \in FilePathArgs
    /\ fsource # NoSource
    /\ fout = NoResult
    /\ fout' = FileResolve(fsource, fdisk)
    /\ UNCHANGED <<fpath, fsource, fdisk, uvars, rvars, gvars>>

NextFile == FileConstruct \/ FileSourceResolve

SpecFile == InitFile /\ [][NextFile]_vars

-----------------------------------------------------------------------------
(* Properties of FileSource.resolve *)

FileResolved == fsource # NoSource /\ fout # NoResult

FileOutcomes ==
    { Raise(PathNotFound), Raise(NotADirectory), Raise(NotAValidModule), Return(fsource.path) }

\* C11: the outcome of FileSource.resolve() is decided by the path's state, in
\* this order: missing -> 'not found'; not a directory -> 'not a directory';
\* a directory without a .py file beneath it -> 'not a valid module';
\* otherwise the canonical absolute path.  The four outcomes differ pairwise
\* and exactly one occurs.
C11_FileResolveOutcome ==
    FileResolved =>
        /\ ~fdisk.exists => fout = Raise(PathNotFound)
        /\ (fdisk.exists /\ ~fdisk.is_dir) => fout = Raise(NotADirectory)
        /\ (fdisk.exists /\ fdisk.is_dir /\ ~fdisk.py) => fout = Raise(NotAValidModule)
        /\ (fdisk.exists /\ fdisk.is_dir /\ fdisk.py) =>
              /\ fout = Return(fsource.path)
              /\ StartsWith(fout.path, Slash)
        /\ Cardinality({ o \in FileOutcomes : o = fout }) = 1
        /\ Cardinality(FileOutcomes) = 4

\* a path that exists as a plain file was refused as 'not a directory'
C11_Witness ==
    /\ FileResolved
    /\ fpath \in FilePathArgs
    /\ fdisk.exists
    /\ ~fdisk.is_dir
    /\ fout = Raise(NotADirectory)


-----------------------------------------------------------------------------
(* Properties of a workspace-layer result *)

WorkspaceReturned == call.made /\ result.kind = "ok" /\ result.layer = "workspace"

\* C14: a source returned with layer 'workspace' lies at a path that exists,
\* is a directory and holds a source file, so source.resolve() on the unchanged
\* filesystem returns the canonical path <workspace_root>/<module_id>.
C14_WorkspaceResolvable ==
    WorkspaceReturned =>
        /\ wsfs[call.module_id].exists
        /\ wsfs[call.module_id].is_dir
        /\ wsfs[call.module_id].py
        /\ fout # NoResult =>
              /\ fdisk = wsfs[call.module_id]
              /\ fout = Return(WorkspaceRoot \o Slash \o call.module_id)

\* an initialised submodule checkout (.git file, Python files) in the workspace
\* was returned and resolved
C14_Witness ==
    /\ WorkspaceReturned
    /\ wsfs[call.module_id].git = "file"
    /\ fout = Return(WorkspaceRoot \o Slash \o call.module_id)


-----------------------------------------------------------------------------
(* Properties of concurrent and repeated GitSource.resolve calls *)

\* callers p and q are both inside _download_via_uv for the same cache path
FetchingSamePath(p, q) ==
    /\ p # q
    /\ gpc[p] = "downloading"
    /\ gpc[q] = "downloading"
    /\ CachePath(gsrc[p]) = CachePath(gsrc[q])

\* C12: nothing holds back a caller that saw a cache miss: it can start its
\* download whatever the other callers are doing, so two callers with the same
\* url and ref can be downloading into the same cache path at once.
C12_NoFetchLock ==
    \A p \in Procs : gpc[p] = "download" => ENABLED DownloadStart(p)

\* two callers that both saw a miss are downloading into one cache path
C12_Witness ==
    \E p, q \in Procs :
        /\ FetchingSamePath(p, q)
        /\ gsrc[p].url = gsrc[q].url
        /\ gsrc[p].ref = gsrc[q].ref
        /\ ~FoundValid(p)
        /\ ~FoundValid(q)
        /\ gfetches[p] = 1
        /\ gfetches[q] = 1

\* the cache path as the call of p last read it before returning
SeenAtReturn(p) == IF gfetch[p] = "none" THEN gseen[p].check ELSE gseen[p].verify

\* C13: a resolve() call that returns, on a cache hit as well as after a
\* download, returns a final path that exists on disk.
C13_ReturnedPathExists ==
    \A p \in Procs :
        (Finished(p) /\ gout[p].kind = "ok") =>
            /\ PresentIn(SeenAtReturn(p), gsrc[p])
            /\ PresentIn(cachefs[CachePath(gsrc[p])], gsrc[p])

=============================================================================
